---- MODULE Spec2Model ----
(***************************************************************************)
(* Mean-curvature-flow skeleton: the contraction driver                    *)
(* (CGAL/Mean_curvature_skeleton.h) and the demo plugin that drives it     *)
(* (Polyhedron_demo_mean_curvature_flow_skeleton_plugin.cpp); and the      *)
(* point container CGAL/Point_set_3.h, as a second specification SpecPS.   *)
(*                                                                         *)
(* Vectors and matrix rows are 0-based functions, as in the C++ code.      *)
(* Coordinates and weights are integers.  A vertex or halfedge handle is a *)
(* stable name; the integer id stored in the element (key->id()) is the    *)
(* value of vid / eid.                                                     *)
(***************************************************************************)
EXTENDS Integers, Sequences, FiniteSets, TLC

\* ---------------------------------------------------------------- bounds
MaxVerts == 5      \* vertex handles ever created on the mesh
MaxCoord == 2      \* side of the larger tetrahedron, largest coordinate
MaxShrink == 1     \* largest per-step displacement the solver may return
MaxOps == 2        \* plugin button presses in one behaviour
MaxItems == 3      \* items push_back may store, largest argument of resize
MaxPsOps == 4      \* Point_set_3 member calls in one behaviour
SizeBits == 8      \* width of std::size_t in the model

NoId == -1         \* id of an element no constructor has numbered
NoItem == -1       \* fixedPointsItemIndex before an item was added
OmegaValues == {1, 2}

\* thresholds and limits of the driver, in the integer units of the model
edgelength_TH == 2 \* an edge is short when its length is below it
zero_TH == 1       \* an area below it counts as zero
MaxSplitPass == 2  \* maximum pass count of iteratively_split_triangles
MaxIter == 2       \* maximum iteration count of contract()
Tolerance == 1     \* a displacement below it counts as converged

Handles == 1..MaxVerts
Coord == 0..MaxCoord
\* what a read outside a vector may return
Garbage == {0, MaxCoord}

VARIABLES
  \* the polyhedron (Polyhedron* polyhedron and the id field of its items)
  verts, faces, pos, vid, eid, fixed, nextHandle,
  \* Mean_curvature_skeleton data members
  mcs, omega_L, omega_H, edge_weight, fixedPoints,
  \* contract(): the driver loop
  runState, iter, runLog, signal, runFailed,
  \* locals of contract_geometry() and the position inside it
  pc, caller, A, Bx, By, Bz, X, Y, Z, factorOk, shrink, wread,
  lhsIdx, rhsIdx, startPos, events,
  \* the plugin
  uiOmegaL, uiOmegaH, ops,
  \* the scene and the plugin's view of it
  selected, polyhedron, stash, nDrivers, lastOp, notified, num_collapses,
  \* the fixed-points item of the scene
  fixedPointsItemIndex, pointItems,
  \* Point_set_3 data members (m_base is the pair of property arrays)
  m_indices, m_points, m_nb_removed,
  \* the Point_set_3 call made last, its argument, how it ended, the calls made
  psOp, psArg, psState, psOps

meshVars == <<verts, faces, pos, vid, eid, fixed, nextHandle>>
mcsVars == <<mcs, omega_L, omega_H, edge_weight, fixedPoints>>
runVars == <<runState, iter, runLog, signal, runFailed>>
cgVars == <<A, Bx, By, Bz, X, Y, Z, factorOk, shrink, wread, lhsIdx, rhsIdx,
            startPos, events>>
uiVars == <<uiOmegaL, uiOmegaH>>
\* selected: the index the running slot read from scene->mainSelectionIndex()
\* polyhedron: the scene item whose polyhedron verts .. nextHandle hold, the
\*   one the driver points to once there is a driver
\* stash: the polyhedron of the other scene item
\* nDrivers: the Mean_curvature_skeleton objects alive on the heap
\* lastOp: the slot that ran last; notified: the item it passed to
\*   scene->itemChanged(), 0 when it returned without the call
sceneVars == <<selected, polyhedron, stash, nDrivers>>
\* num_collapses: what the last collapse_short_edges() returned
psVars == <<m_indices, m_points, m_nb_removed, psOp, psArg, psState, psOps>>
\* fixedPointsItemIndex: the plugin member, NoItem before the first item
\* pointItems: the point set of every Scene_points_with_normal_item of the
\*   scene, by scene index
fpVars == <<fixedPointsItemIndex, pointItems>>
restVars == <<sceneVars, lastOp, notified, num_collapses, psVars, fpVars>>
vars == <<meshVars, mcsVars, runVars, pc, caller, cgVars, uiVars, ops,
          restVars>>

\* ------------------------------------------------------------- helpers
Min(a, b) == IF a < b THEN a ELSE b
Max(a, b) == IF a > b THEN a ELSE b

RECURSIVE SumSeq(_)
SumSeq(s) == IF s = <<>> THEN 0 ELSE Head(s) + SumSeq(Tail(s))

\* the elements of a finite set of integers in ascending order
SortedSeq(S) ==
  [k \in 1..Cardinality(S) |->
     CHOOSE x \in S : Cardinality({y \in S : y < x}) = k - 1]

IndexOf(s, x) == CHOOSE k \in 1..Len(s) : s[k] = x

Vec(n, val) == [i \in 0..(n - 1) |-> val]
VLen(v) == Cardinality(DOMAIN v)

\* ---------------------------------------------------------- the mesh
\* boost::vertices(): the vertices in list order (handles are never reused,
\* a new vertex goes to the end of the list)
HandleList == [k \in 1..MaxVerts |-> k]
VertexList(V) == SelectSeq(HandleList, LAMBDA v : v \in V)

\* boost::edges(): every halfedge <<source, target>> of the surface
Edges(F) == {e \in Handles \X Handles :
               e[1] # e[2] /\ \E f \in F : {e[1], e[2]} \subseteq f}

\* halfedges in list order: the halfedges of a newer vertex come later
EdgeKey(e) == (Max(e[1], e[2]) * (MaxVerts + 1) + e[1]) * (MaxVerts + 1) + e[2]
EdgeOfKey(k) == <<(k \div (MaxVerts + 1)) % (MaxVerts + 1), k % (MaxVerts + 1)>>
AllEdgeList ==
  LET ks == SortedSeq({EdgeKey(e) : e \in {d \in Handles \X Handles : d[1] # d[2]}})
  IN [k \in 1..Len(ks) |-> EdgeOfKey(ks[k])]
EdgeList(F) ==
  SelectSeq(AllEdgeList, LAMBDA e : \E f \in F : {e[1], e[2]} \subseteq f)

\* boost::in_edges(v): the halfedges whose target is v, in list order
InEdges(v, F) == SelectSeq(EdgeList(F), LAMBDA e : e[2] = v)

num_vertices(V) == Cardinality(V)
num_edges(F) == Cardinality(Edges(F))

Sub(p, q) == <<p[1] - q[1], p[2] - q[2], p[3] - q[3]>>
Dot(p, q) == p[1] * q[1] + p[2] * q[2] + p[3] * q[3]
Cross(p, q) == <<p[2] * q[3] - p[3] * q[2],
                 p[3] * q[1] - p[1] * q[3],
                 p[1] * q[2] - p[2] * q[1]>>
Dist2(p, q) == Dot(Sub(p, q), Sub(p, q))

\* the vertices opposite to the edge {u, v} in its incident faces
Opposite(u, v, F) == {w \in Handles : {u, v, w} \in F /\ w # u /\ w # v}

\* Weight calculator (4.1): a pure function of the geometry around the edge.
\* Integer stand-in for the cotangent of the angle at w opposite to {u, v}:
\* its numerator, clamped at zero, with fallback 0 on a zero-area triangle.
CotValue(w, u, v, P) ==
  LET a == Sub(P[u], P[w])
      b == Sub(P[v], P[w])
  IN IF Cross(a, b) = <<0, 0, 0>> THEN 0 ELSE Max(0, Dot(a, b))

RECURSIVE SumCot(_, _, _, _)
SumCot(W, u, v, P) ==
  IF W = {} THEN 0
  ELSE LET w == CHOOSE x \in W : TRUE
       IN CotValue(w, u, v, P) + SumCot(W \ {w}, u, v, P)

weight_calculator(e, F, P) == SumCot(Opposite(e[1], e[2], F), e[1], e[2], P)

\* ------------------------------------------------ topology maintenance
\* The mesh as one value, for the operations that rebuild it
Mesh(V, F, P, ids, eids, fx, nh) ==
  [verts |-> V, faces |-> F, pos |-> P, vid |-> ids, eid |-> eids,
   fixed |-> fx, nextHandle |-> nh]

Neighbours(u, F) == {w \in Handles : <<u, w>> \in Edges(F)}

\* collapsing {u, v} keeps the surface a manifold: the two vertices share
\* exactly the two vertices opposite to the edge, and no face is doubled
CollapseFaces(u, v, F) ==
  {IF v \in f THEN (f \ {v}) \cup {u} ELSE f : f \in {g \in F : ~({u, v} \subseteq g)}}

\* IsManifoldCollapse without the test of the shared neighbours
IsManifoldCollapse_NoLinkTest(u, v, V, F) ==
  Cardinality(Opposite(u, v, F)) = 2

IsManifoldCollapse(u, v, V, F) ==
  /\ Cardinality(Opposite(u, v, F)) = 2
  /\ Neighbours(u, F) \cap Neighbours(v, F) = Opposite(u, v, F)
  /\ Cardinality(CollapseFaces(u, v, F)) = Cardinality(F) - 2

IsShortEdge(e, P) == Dist2(P[e[1]], P[e[2]]) < edgelength_TH * edgelength_TH

\* merge v into u: u keeps its position and its id, inherits the fixed
\* flag; the halfedges that survive keep the id they had
CollapseEdge(M, u, v) ==
  LET F2 == CollapseFaces(u, v, M.faces)
      V2 == M.verts \ {v}
      old(e) == IF e \in DOMAIN M.eid THEN e
                ELSE IF e[1] = u THEN <<v, e[2]>> ELSE <<e[1], v>>
  IN Mesh(V2, F2,
          [w \in V2 |-> M.pos[w]],
          [w \in V2 |-> M.vid[w]],
          [e \in Edges(F2) |-> M.eid[old(e)]],
          [w \in V2 |-> IF w = u THEN M.fixed[u] \/ M.fixed[v] ELSE M.fixed[w]],
          M.nextHandle)

Collapsible(M) ==
  SelectSeq(EdgeList(M.faces),
            LAMBDA e : /\ e[1] < e[2]
                       /\ IsShortEdge(e, M.pos)
                       /\ IsManifoldCollapse(e[1], e[2], M.verts, M.faces))

\* collapse_short_edges(): collapse short edges until none is left that can
\* be collapsed; the result is the mesh and the number of collapses
RECURSIVE collapse_short_edges(_, _)
collapse_short_edges(M, count) ==
  LET es == Collapsible(M)
  IN IF es = <<>> THEN [mesh |-> M, count |-> count]
     ELSE CHOOSE r \in {collapse_short_edges(m, count + 1) :
                          m \in {CollapseEdge(M, es[1][1], es[1][2])}} : TRUE

\* a face is ill-shaped at the edge {u, v} when the angle opposite to the
\* edge is not acute (and the face has an area)
IsBadAngle(w, u, v, P) ==
  LET a == Sub(P[u], P[w])
      b == Sub(P[v], P[w])
  IN Cross(a, b) # <<0, 0, 0>> /\ Dot(a, b) <= 0

Splittable(M) ==
  SelectSeq(EdgeList(M.faces),
            LAMBDA e : /\ e[1] < e[2]
                       /\ \E w \in Opposite(e[1], e[2], M.faces) :
                            IsBadAngle(w, e[1], e[2], M.pos))

Midpoint(p, q) ==
  <<(p[1] + q[1]) \div 2, (p[2] + q[2]) \div 2, (p[3] + q[3]) \div 2>>

\* insert a new vertex h on {u, v} and retriangulate the incident faces;
\* the new vertex and the new halfedges carry no id yet
SplitEdge(M, u, v) ==
  LET h == M.nextHandle
      F2 == {f \in M.faces : ~({u, v} \subseteq f)}
              \cup {{u, h, w} : w \in Opposite(u, v, M.faces)}
              \cup {{h, v, w} : w \in Opposite(u, v, M.faces)}
      V2 == M.verts \cup {h}
  IN Mesh(V2, F2,
          [w \in V2 |-> IF w = h THEN Midpoint(M.pos[u], M.pos[v]) ELSE M.pos[w]],
          [w \in V2 |-> IF w = h THEN NoId ELSE M.vid[w]],
          [e \in Edges(F2) |-> IF e \in DOMAIN M.eid THEN M.eid[e] ELSE NoId],
          [w \in V2 |-> IF w = h THEN FALSE ELSE M.fixed[w]],
          h + 1)

\* iteratively_split_triangles(): split until no face is ill-shaped or the
\* maximum pass count is hit
RECURSIVE iteratively_split_triangles(_, _)
iteratively_split_triangles(M, count) ==
  LET es == Splittable(M)
  IN IF es = <<>> \/ count >= MaxSplitPass \/ M.nextHandle > MaxVerts
     THEN [mesh |-> M, count |-> count]
     ELSE CHOOSE r \in {iteratively_split_triangles(m, count + 1) :
                          m \in {SplitEdge(M, es[1][1], es[1][2])}} : TRUE

\* local extent of a vertex: the (squared, doubled) area of its faces
FaceArea2(f, P) ==
  LET a == CHOOSE x \in f : TRUE
      b == CHOOSE x \in f \ {a} : TRUE
      c == CHOOSE x \in f \ {a, b} : TRUE
      n == Cross(Sub(P[b], P[a]), Sub(P[c], P[a]))
  IN Dot(n, n)

RECURSIVE SumArea2(_, _)
SumArea2(Fs, P) ==
  IF Fs = {} THEN 0
  ELSE LET f == CHOOSE x \in Fs : TRUE
       IN FaceArea2(f, P) + SumArea2(Fs \ {f}, P)

IsDegenerate(v, F, P) == SumArea2({f \in F : v \in f}, P) < zero_TH

\* detect_degeneracies(): fix every vertex that is not fixed yet and whose
\* neighbourhood is degenerate, and record its position
NewlyFixed(V, F, P, fx) ==
  SelectSeq(VertexList(V), LAMBDA v : ~fx[v] /\ IsDegenerate(v, F, P))

\* detect_degeneracies that returns only the positions fixed by this call
detect_degeneracies_Replace(V, F, P, fx, fps) ==
  LET nf == NewlyFixed(V, F, P, fx)
  IN [fixed |-> [v \in V |-> fx[v] \/ \E k \in 1..Len(nf) : nf[k] = v],
      fixedPoints |-> [k \in 1..Len(nf) |-> P[nf[k]]],
      count |-> Len(nf)]

detect_degeneracies(V, F, P, fx, fps) ==
  LET nf == NewlyFixed(V, F, P, fx)
  IN [fixed |-> [v \in V |-> fx[v] \/ \E k \in 1..Len(nf) : nf[k] = v],
      fixedPoints |-> fps \o [k \in 1..Len(nf) |-> P[nf[k]]],
      count |-> Len(nf)]

\* total displacement of the vertices between two position maps
RECURSIVE Displacement(_, _, _)
Displacement(V, P, Q) ==
  IF V = {} THEN 0
  ELSE LET v == CHOOSE x \in V : TRUE
       IN (IF v \in DOMAIN P /\ v \in DOMAIN Q THEN Dist2(P[v], Q[v]) ELSE 0)
            + Displacement(V \ {v}, P, Q)


\* ------------------------------------------- Mean_curvature_skeleton
\* constructor: number the vertices and the halfedges in iteration order
CtorVid(V) ==
  LET vs == VertexList(V) IN [v \in V |-> IndexOf(vs, v) - 1]
CtorEid(F) ==
  LET es == EdgeList(F) IN [e \in Edges(F) |-> IndexOf(es, e) - 1]

\* compute_edge_weight(): one push_back per halfedge onto the member vector
compute_edge_weight(ew, F, P) ==
  LET es == EdgeList(F)
  IN ew \o [k \in 1..Len(es) |-> weight_calculator(es[k], F, P)]

\* edge_weight[id]: reading past the end of the vector gives garbage g
WeightAt(ew, id, g) == IF id >= 0 /\ id < Len(ew) THEN ew[id + 1] ELSE g

NewMatrix(r, c) ==
  [rows |-> r, cols |-> c, coef |-> [i \in 0..(r - 1) |-> Vec(c, 0)]]

\* the matrix after the set_coef(r, c, val) calls ws = <<r, c, val>>, ...:
\* every coefficient holds the value of the last write to it; a write
\* outside the matrix does not land in it
ApplyWrites(M, ws) ==
  [M EXCEPT !.coef =
     [r \in 0..(M.rows - 1) |->
        [c \in 0..(M.cols - 1) |->
           LET hits == {k \in 1..Len(ws) : ws[k][1] = r /\ ws[k][2] = c}
           IN IF hits = {} THEN M.coef[r][c]
              ELSE ws[CHOOSE k \in hits : \A l \in hits : l <= k][3]]]]

\* wij of the in-edge e: twice the cached weight read at the edge's id
Wij(e, ew, ids, g) == WeightAt(ew, ids[e], g) * 2

\* assemble_LHS, first loop: A(i,i) = 0 and A(i+nver,i) = omega_H
LHSInitWrites(nver, oH) ==
  [k \in 1..(2 * nver) |->
     LET i == (k - 1) \div 2
     IN IF k % 2 = 1 THEN <<i, i, 0>> ELSE <<i + nver, i, oH>>]

\* assemble_LHS, the writes made for vertex v: one per in-edge, then the
\* diagonal
LHSVertexWrites(v, F, ids, eids, ew, oL, g) ==
  LET es == InEdges(v, F)
      i == ids[v]
      offd == [k \in 1..Len(es) |->
                 <<i, ids[es[k][1]], Wij(es[k], ew, eids, g) * oL>>]
      diagonal == SumSeq([k \in 1..Len(es) |-> -Wij(es[k], ew, eids, g)])
  IN offd \o <<<<i, i, diagonal>>>>

RECURSIVE LHSLoopWrites(_, _, _, _, _, _, _)
LHSLoopWrites(vs, F, ids, eids, ew, oL, g) ==
  IF vs = <<>> THEN <<>>
  ELSE LHSVertexWrites(Head(vs), F, ids, eids, ew, oL, g)
         \o LHSLoopWrites(Tail(vs), F, ids, eids, ew, oL, g)

LHSWrites(V, F, ids, eids, ew, oL, oH, g) ==
  LHSInitWrites(num_vertices(V), oH)
    \o LHSLoopWrites(VertexList(V), F, ids, eids, ew, oL, g)

assemble_LHS(M, V, F, ids, eids, ew, oL, oH, g) ==
  ApplyWrites(M, LHSWrites(V, F, ids, eids, ew, oL, oH, g))

\* assemble_RHS for one channel c: zero rows [0,nver), then
\* B[id + nver] = coordinate * omega_H for every vertex in list order
\* every entry holds the value of the last vertex that wrote it
RHSLoop(B, vs, ids, P, c, nver, oH) ==
  [i \in DOMAIN B |->
     LET ws == {k \in 1..Len(vs) : ids[vs[k]] + nver = i}
     IN IF ws = {} THEN B[i]
        ELSE P[vs[CHOOSE k \in ws : \A l \in ws : l <= k]][c] * oH]

assemble_RHS(B, V, ids, P, c, oH) ==
  LET nver == num_vertices(V)
      zeroed == [i \in DOMAIN B |-> IF i < nver THEN 0 ELSE B[i]]
  IN RHSLoop(zeroed, VertexList(V), ids, P, c, nver, oH)

RHSIndices(V, ids) ==
  (0..(num_vertices(V) - 1)) \cup {ids[v] + num_vertices(V) : v \in V}

\* Sparse solver adapter.  The factorization fixes how far the solve pulls
\* every anchored coordinate towards the origin (k); the solve of one
\* channel is then a function of the right-hand side.
Shrink(p, k) == IF p > k THEN p - k ELSE 0
linear_solver_non_symmetric(M, B, k, oH) ==
  [i \in 0..(M.cols - 1) |->
     IF i + M.cols \in DOMAIN B THEN Shrink(B[i + M.cols] \div oH, k) ELSE 0]

\* X[i]: reading outside the vector gives garbage g
VecAt(v, i, g) == IF i \in DOMAIN v THEN v[i] ELSE g

CanonicalEvents ==
  <<"weights", "lhs", "rhs", "factor", "solveX", "solveY", "solveZ", "copy">>

\* ----------------------------------------------------------------- Init
TetraFaces == {{1, 2, 3}, {1, 2, 4}, {1, 3, 4}, {2, 3, 4}}
TetraPos(s) == (1 :> <<0, 0, 0>>) @@ (2 :> <<s, 0, 0>>)
                 @@ (3 :> <<0, s, 0>>) @@ (4 :> <<0, 0, s>>)

\* the scene holds two polyhedron items: a tetrahedron of side MaxCoord and
\* one of side 1
Items == {1, 2}
\* a tetrahedron of side s as it is loaded: no item carries an id yet
Tetra(s) ==
  Mesh({1, 2, 3, 4}, TetraFaces, TetraPos(s),
       [v \in {1, 2, 3, 4} |-> NoId], [e \in Edges(TetraFaces) |-> NoId],
       [v \in {1, 2, 3, 4} |-> FALSE], 5)
\* the place in stash of the polyhedron that verts .. nextHandle hold
Moved == Mesh({}, {}, <<>>, <<>>, <<>>, <<>>, 0)

Init ==
  /\ verts = {1, 2, 3, 4}
  /\ faces = TetraFaces
  /\ pos = TetraPos(MaxCoord)
  /\ vid = [v \in verts |-> NoId]
  /\ eid = [e \in Edges(faces) |-> NoId]
  /\ fixed = [v \in verts |-> FALSE]
  /\ nextHandle = 5
  /\ polyhedron = 1
  /\ stash = [i \in Items |-> IF i = 1 THEN Moved ELSE Tetra(1)]
  /\ selected = 1
  /\ nDrivers = 0
  /\ lastOp = "none"
  /\ notified = 0
  /\ num_collapses = 0
  /\ fixedPoints = <<>>
  /\ runState = "None" /\ iter = 0 /\ runLog = <<>> /\ signal = 0
  /\ runFailed = FALSE
  /\ mcs = FALSE
  /\ omega_L = 0 /\ omega_H = 0
  /\ edge_weight = <<>>
  /\ pc = "idle" /\ caller = "none"
  /\ A = NewMatrix(0, 0)
  /\ Bx = Vec(0, 0) /\ By = Vec(0, 0) /\ Bz = Vec(0, 0)
  /\ X = Vec(0, 0) /\ Y = Vec(0, 0) /\ Z = Vec(0, 0)
  /\ factorOk = TRUE /\ shrink = 0
  /\ wread = <<>>
  /\ lhsIdx = {} /\ rhsIdx = {}
  /\ startPos = <<>>
  /\ events = <<>>
  \* init_ui(): omega_L = 1, omega_H = 0.1 (the smaller of the two values)
  /\ uiOmegaL = 1 /\ uiOmegaH = 1
  /\ ops = 0
  \* Point_set_3(): both property arrays empty, nothing removed
  /\ m_indices = Vec(0, 0) /\ m_points = Vec(0, 0)
  /\ m_nb_removed = 0
  /\ psOp = "none" /\ psArg = 0 /\ psState = "ok" /\ psOps = 0
  \* on_actionMCFSkeleton_triggered(): fixedPointsItemIndex = -1
  /\ fixedPointsItemIndex = NoItem
  /\ pointItems = <<>>

\* ------------------------------------------------ contract_geometry()
\* the locals do not outlive the call
NoLocals ==
  /\ A' = NewMatrix(0, 0)
  /\ Bx' = Vec(0, 0) /\ By' = Vec(0, 0) /\ Bz' = Vec(0, 0)
  /\ X' = Vec(0, 0) /\ Y' = Vec(0, 0) /\ Z' = Vec(0, 0)
  /\ factorOk' = TRUE /\ shrink' = 0
  /\ wread' = <<>>
  /\ lhsIdx' = {} /\ rhsIdx' = {}
  /\ events' = <<>>

EnterContractGeometry(from) ==
  /\ pc' = "cg_weight"
  /\ caller' = from
  /\ NoLocals
  /\ startPos' = pos'

CgComputeEdgeWeight ==
  /\ pc = "cg_weight"
  /\ edge_weight' = compute_edge_weight(edge_weight, faces, pos)
  /\ events' = Append(events, "weights")
  /\ pc' = "cg_lhs"
  /\ UNCHANGED <<meshVars, mcs, omega_L, omega_H, fixedPoints, runVars,
                 caller, A, Bx, By, Bz, X, Y, Z, factorOk, shrink, wread,
                 lhsIdx, rhsIdx, startPos, uiVars, restVars, ops>>

CgAssembleLHS ==
  /\ pc = "cg_lhs"
  /\ LET nver == num_vertices(verts)
         es == EdgeList(faces)
         oob == \E k \in 1..Len(es) :
                  ~(eid[es[k]] >= 0 /\ eid[es[k]] < Len(edge_weight))
     IN \E g \in (IF oob THEN Garbage ELSE {0}) :
          \E ws \in {LHSWrites(verts, faces, vid, eid, edge_weight, omega_L,
                               omega_H, g)} :
             /\ A' = assemble_LHS(NewMatrix(nver * 2, nver), verts, faces,
                                  vid, eid, edge_weight, omega_L, omega_H, g)
             /\ wread' = [k \in 1..Len(es) |->
                            WeightAt(edge_weight, eid[es[k]], g)]
             /\ lhsIdx' = {<<ws[k][1], ws[k][2]>> : k \in 1..Len(ws)}
  /\ events' = Append(events, "lhs")
  /\ pc' = "cg_rhs"
  /\ UNCHANGED <<meshVars, mcsVars, runVars, caller, Bx, By, Bz, X, Y, Z,
                 factorOk, shrink, rhsIdx, startPos, uiVars, restVars, ops>>

CgAssembleRHS ==
  /\ pc = "cg_rhs"
  /\ LET nver == num_vertices(verts)
     IN /\ X' = Vec(nver, 0) /\ Y' = Vec(nver, 0) /\ Z' = Vec(nver, 0)
        /\ Bx' = assemble_RHS(Vec(nver * 2, 0), verts, vid, pos, 1, omega_H)
        /\ By' = assemble_RHS(Vec(nver * 2, 0), verts, vid, pos, 2, omega_H)
        /\ Bz' = assemble_RHS(Vec(nver * 2, 0), verts, vid, pos, 3, omega_H)
  /\ rhsIdx' = RHSIndices(verts, vid)
  /\ events' = Append(events, "rhs")
  /\ pc' = "cg_factor"
  /\ UNCHANGED <<meshVars, mcsVars, runVars, caller, A, factorOk, shrink, wread,
                 lhsIdx, startPos, uiVars, restVars, ops>>

\* m_solver.pre_factor_non_symmetric(A, D): the returned bool is dropped
CgPreFactor ==
  /\ pc = "cg_factor"
  /\ \E ok \in BOOLEAN, k \in 0..MaxShrink :
       /\ factorOk' = ok
       /\ shrink' = k
       /\ runFailed' = (runFailed \/ (runState = "Running" /\ ~ok))
  /\ events' = Append(events, "factor")
  /\ pc' = "cg_solveX"
  /\ UNCHANGED <<meshVars, mcsVars, runState, iter, runLog, signal, caller,
                 A, Bx, By, Bz, X, Y, Z, wread, lhsIdx, rhsIdx, startPos,
                 uiVars, restVars, ops>>

CgSolveX ==
  /\ pc = "cg_solveX"
  /\ X' = linear_solver_non_symmetric(A, Bx, shrink, omega_H)
  /\ events' = Append(events, "solveX")
  /\ pc' = "cg_solveY"
  /\ UNCHANGED <<meshVars, mcsVars, runVars, caller, A, Bx, By, Bz, Y, Z, factorOk,
                 shrink, wread, lhsIdx, rhsIdx, startPos, uiVars, restVars, ops>>

\* CgSolveY with the Z solve forgotten: the copy follows the Y solve
CgSolveY_SkipZ ==
  /\ pc = "cg_solveY"
  /\ Y' = linear_solver_non_symmetric(A, By, shrink, omega_H)
  /\ events' = Append(events, "solveY")
  /\ pc' = "cg_copy"
  /\ UNCHANGED <<meshVars, mcsVars, runVars, caller, A, Bx, By, Bz, X, Z,
                 factorOk, shrink, wread, lhsIdx, rhsIdx, startPos, uiVars, restVars,
                 ops>>

CgSolveY ==
  /\ pc = "cg_solveY"
  /\ Y' = linear_solver_non_symmetric(A, By, shrink, omega_H)
  /\ events' = Append(events, "solveY")
  /\ pc' = "cg_solveZ"
  /\ UNCHANGED <<meshVars, mcsVars, runVars, caller, A, Bx, By, Bz, X, Z, factorOk,
                 shrink, wread, lhsIdx, rhsIdx, startPos, uiVars, restVars, ops>>

CgSolveZ ==
  /\ pc = "cg_solveZ"
  /\ Z' = linear_solver_non_symmetric(A, Bz, shrink, omega_H)
  /\ events' = Append(events, "solveZ")
  /\ pc' = "cg_copy"
  /\ UNCHANGED <<meshVars, mcsVars, runVars, caller, A, Bx, By, Bz, X, Y, factorOk,
                 shrink, wread, lhsIdx, rhsIdx, startPos, uiVars, restVars, ops>>

\* "copy to mesh", then return to the caller
CgCopyToMesh ==
  /\ pc = "cg_copy"
  /\ LET oob == \E v \in verts : vid[v] \notin DOMAIN X
     IN \E g \in (IF oob THEN Garbage ELSE {0}) :
          pos' = [v \in verts |->
                    <<VecAt(X, vid[v], g), VecAt(Y, vid[v], g),
                      VecAt(Z, vid[v], g)>>]
  /\ events' = Append(events, "copy")
  /\ pc' = "cg_done"
  /\ UNCHANGED <<verts, faces, vid, eid, fixed, nextHandle, mcsVars,
                 runVars, caller, A, Bx, By, Bz, X, Y, Z, factorOk, shrink,
                 wread, lhsIdx, rhsIdx, startPos, uiVars, restVars, ops>>

\* ------------------------------------------------------------ the plugin
SetMesh(M) ==
  /\ verts' = M.verts
  /\ faces' = M.faces
  /\ pos' = M.pos
  /\ vid' = M.vid
  /\ eid' = M.eid
  /\ fixed' = M.fixed
  /\ nextHandle' = M.nextHandle

CurrentMesh == Mesh(verts, faces, pos, vid, eid, fixed, nextHandle)

\* the polyhedron of scene item i
SceneMesh(i) == IF i = polyhedron THEN CurrentMesh ELSE stash[i]

\* new Mean_curvature_skeleton(pMesh, ...): the constructor keeps the
\* pointer, numbers the vertices and halfedges of that polyhedron and
\* stores omega_L and omega_H
NewDriver(sel, oL, oH) ==
  /\ \E M \in {SceneMesh(sel)} :
       SetMesh([M EXCEPT !.vid = CtorVid(M.verts), !.eid = CtorEid(M.faces)])
  /\ polyhedron' = sel
  /\ stash' = IF sel = polyhedron THEN stash
              ELSE [stash EXCEPT ![sel] = Moved, ![polyhedron] = CurrentMesh]
  /\ mcs' = TRUE
  /\ omega_L' = oL
  /\ omega_H' = oH
  /\ edge_weight' = <<>>
  /\ fixedPoints' = <<>>

\* SetupDriver with the delete of the old driver forgotten
SetupDriver_NoDelete(sel) ==
  IF ~mcs
  THEN /\ NewDriver(sel, uiOmegaL, uiOmegaH)
       /\ nDrivers' = nDrivers + 1
       /\ UNCHANGED uiVars
  ELSE IF polyhedron # sel
  THEN /\ uiOmegaL' = 1 /\ uiOmegaH' = 1
       /\ NewDriver(sel, 1, 1)
       /\ nDrivers' = nDrivers + 1
  ELSE /\ omega_L' = uiOmegaL
       /\ omega_H' = uiOmegaH
       /\ UNCHANGED <<meshVars, mcs, edge_weight, fixedPoints, polyhedron,
                      stash, nDrivers, uiVars>>

\* SetupDriver with the parameters of an existing driver left as they are
SetupDriver_NoSetters(sel) ==
  IF ~mcs
  THEN /\ NewDriver(sel, uiOmegaL, uiOmegaH)
       /\ nDrivers' = nDrivers + 1
       /\ UNCHANGED uiVars
  ELSE IF polyhedron # sel
  THEN /\ uiOmegaL' = 1 /\ uiOmegaH' = 1
       /\ NewDriver(sel, 1, 1)
       /\ nDrivers' = (nDrivers - 1) + 1
  ELSE UNCHANGED <<meshVars, mcsVars, polyhedron, stash, nDrivers, uiVars>>

\* on_actionContract / on_actionRun, lines 164-189 and 325-350: create the
\* driver on the first use; when the driver's polyhedron is not the selected
\* one, delete the driver, reset the ui (init_ui) and create a driver on the
\* selected polyhedron; otherwise hand the driver the ui values
SetupDriver(sel) ==
  IF ~mcs
  THEN /\ NewDriver(sel, uiOmegaL, uiOmegaH)
       /\ nDrivers' = nDrivers + 1
       /\ UNCHANGED uiVars
  ELSE IF polyhedron # sel
  THEN /\ uiOmegaL' = 1 /\ uiOmegaH' = 1
       /\ NewDriver(sel, 1, 1)
       /\ nDrivers' = (nDrivers - 1) + 1
  ELSE /\ omega_L' = uiOmegaL
       /\ omega_H' = uiOmegaH
       /\ UNCHANGED <<meshVars, mcs, edge_weight, fixedPoints, polyhedron,
                      stash, nDrivers, uiVars>>

on_actionContract ==
  /\ pc = "idle"
  /\ ops < MaxOps
  /\ ops' = ops + 1
  /\ \E sel \in Items :
       /\ selected' = sel
       /\ SetupDriver(sel)
  /\ EnterContractGeometry("on_actionContract")
  /\ runState' = "None"
  /\ lastOp' = "on_actionContract"
  /\ notified' = 0
  /\ UNCHANGED <<iter, runLog, signal, runFailed, num_collapses, psVars,
                 fpVars>>

\* on_actionContract after contract_geometry() returned: update the scene
ContractReturn ==
  /\ pc = "cg_done"
  /\ caller = "on_actionContract"
  /\ pc' = "idle"
  /\ caller' = "none"
  /\ NoLocals
  /\ startPos' = <<>>
  /\ notified' = selected
  /\ UNCHANGED <<meshVars, mcsVars, runVars, uiVars, ops, sceneVars, lastOp,
                 num_collapses, psVars, fpVars>>

\* lines 205-232: without a driver the slot returns at once; otherwise the
\* driver collapses the short edges of its polyhedron and the slot notifies
\* the selected item
on_actionCollapse ==
  /\ pc = "idle"
  /\ ops < MaxOps
  /\ ops' = ops + 1
  /\ lastOp' = "on_actionCollapse"
  /\ \E sel \in Items :
       /\ selected' = sel
       /\ IF ~mcs
          THEN notified' = 0 /\ num_collapses' = 0 /\ UNCHANGED meshVars
          ELSE \E r \in {collapse_short_edges(CurrentMesh, 0)} :
                  /\ SetMesh(r.mesh)
                  /\ num_collapses' = r.count
                  /\ notified' = sel
  /\ UNCHANGED <<mcsVars, runVars, pc, caller, cgVars, uiVars, polyhedron,
                 stash, nDrivers, psVars, fpVars>>

\* lines 234-260
on_actionSplit ==
  /\ pc = "idle"
  /\ ops < MaxOps
  /\ ops' = ops + 1
  /\ lastOp' = "on_actionSplit"
  /\ \E sel \in Items :
       /\ selected' = sel
       /\ IF ~mcs
          THEN notified' = 0 /\ UNCHANGED meshVars
          ELSE /\ \E r \in {iteratively_split_triangles(CurrentMesh, 0)} :
                    SetMesh(r.mesh)
               /\ notified' = sel
  /\ UNCHANGED <<mcsVars, runVars, pc, caller, cgVars, uiVars, polyhedron,
                 stash, nDrivers, num_collapses, psVars, fpVars>>

\* get_fixed_points(fixedPoints): a copy of the driver's fixed points
get_fixed_points(fps) == fps

\* a new Scene_points_with_normal_item whose point set receives, by
\* push_back in order, one UI_point_3 per point of get_fixed_points()
RECURSIVE PushBackAll(_, _, _)
PushBackAll(ps, pts, i) ==
  IF i > Len(pts) THEN ps
  ELSE PushBackAll(Append(ps, <<pts[i][1], pts[i][2], pts[i][3]>>), pts, i + 1)
NewFixedPointsItem(fps) == PushBackAll(<<>>, get_fixed_points(fps), 1)

\* scene->addItem(item): the item goes behind the items of the scene and
\* its index is returned
addItem == Cardinality(Items) + Cardinality(DOMAIN pointItems) + 1

\* ShowFixedPoints with scene->addItem() on every call
ShowFixedPoints_AlwaysAdd(fps) ==
  /\ fixedPointsItemIndex' = addItem
  /\ pointItems' = pointItems @@ (addItem :> NewFixedPointsItem(fps))

\* the end of on_actionDegeneracy and of on_actionRun: the first call adds
\* the fixed-points item, a later one replaces the item at
\* fixedPointsItemIndex
ShowFixedPoints(fps) ==
  IF fixedPointsItemIndex = NoItem
  THEN /\ fixedPointsItemIndex' = addItem
       /\ pointItems' = pointItems @@ (addItem :> NewFixedPointsItem(fps))
  ELSE /\ pointItems' = [pointItems EXCEPT
                           ![fixedPointsItemIndex] = NewFixedPointsItem(fps)]
       /\ UNCHANGED fixedPointsItemIndex

\* on_actionDegeneracy with the fixed flag of the vertices left unset
on_actionDegeneracy_NoFlag ==
  /\ pc = "idle"
  /\ ops < MaxOps
  /\ ops' = ops + 1
  /\ lastOp' = "on_actionDegeneracy"
  /\ \E sel \in Items :
       /\ selected' = sel
       /\ IF ~mcs
          THEN notified' = 0 /\ UNCHANGED <<fixed, fixedPoints, fpVars>>
          ELSE \E r \in {detect_degeneracies(verts, faces, pos, fixed,
                                               fixedPoints)} :
                  /\ fixed' = fixed
                  /\ fixedPoints' = r.fixedPoints
                  /\ ShowFixedPoints(r.fixedPoints)
                  /\ notified' = sel
  /\ UNCHANGED <<verts, faces, pos, vid, eid, nextHandle, mcs, omega_L,
                 omega_H, edge_weight, runVars, pc, caller, cgVars, uiVars,
                 polyhedron, stash, nDrivers, num_collapses, psVars>>

\* lines 262-309
on_actionDegeneracy ==
  /\ pc = "idle"
  /\ ops < MaxOps
  /\ ops' = ops + 1
  /\ lastOp' = "on_actionDegeneracy"
  /\ \E sel \in Items :
       /\ selected' = sel
       /\ IF ~mcs
          THEN notified' = 0 /\ UNCHANGED <<fixed, fixedPoints, fpVars>>
          ELSE \E r \in {detect_degeneracies(verts, faces, pos, fixed,
                                               fixedPoints)} :
                  /\ fixed' = r.fixed
                  /\ fixedPoints' = r.fixedPoints
                  /\ ShowFixedPoints(r.fixedPoints)
                  /\ notified' = sel
  /\ UNCHANGED <<verts, faces, pos, vid, eid, nextHandle, mcs, omega_L,
                 omega_H, edge_weight, runVars, pc, caller, cgVars, uiVars,
                 polyhedron, stash, nDrivers, num_collapses, psVars>>

\* the user edits the omega_L / omega_H spin boxes that still show the
\* values init_ui() gave them
EditUi ==
  /\ pc = "idle"
  /\ ops < MaxOps
  /\ <<uiOmegaL, uiOmegaH>> = <<1, 1>>
  /\ \E l \in OmegaValues, h \in OmegaValues :
       /\ <<l, h>> # <<uiOmegaL, uiOmegaH>>
       /\ uiOmegaL' = l
       /\ uiOmegaH' = h
  /\ UNCHANGED <<meshVars, mcsVars, runVars, pc, caller, cgVars, restVars,
                 ops>>

\* ------------------------------------------------------------ contract()
\* the driver loop (4.6): contraction step, collapse, split, detection,
\* then the convergence test
CanonicalLog(n) ==
  [k \in 1..(4 * n) |->
     <<((k - 1) \div 4) + 1,
       <<"contract", "collapse", "split", "detect">>[((k - 1) % 4) + 1]>>]

on_actionRun ==
  /\ pc = "idle"
  /\ ops < MaxOps
  /\ ops' = ops + 1
  /\ \E sel \in Items :
       /\ selected' = sel
       /\ SetupDriver(sel)
  /\ runState' = "Running"
  /\ iter' = 1
  /\ runLog' = <<<<1, "contract">>>>
  /\ signal' = 0
  /\ runFailed' = FALSE
  /\ EnterContractGeometry("contract")
  /\ lastOp' = "on_actionRun"
  /\ notified' = 0
  /\ UNCHANGED <<num_collapses, psVars, fpVars>>

\* RunCollapse with the split phase left out
RunCollapse_SkipSplit ==
  /\ pc = "cg_done"
  /\ caller = "contract"
  /\ signal' = Displacement(verts, startPos, pos)
  /\ \E r \in {collapse_short_edges(CurrentMesh, 0)} : SetMesh(r.mesh)
  /\ runLog' = Append(runLog, <<iter, "collapse">>)
  /\ pc' = "run_detect"
  /\ NoLocals
  /\ startPos' = <<>>
  /\ UNCHANGED <<mcsVars, runState, iter, runFailed, caller, uiVars,
                 restVars, ops>>

RunCollapse ==
  /\ pc = "cg_done"
  /\ caller = "contract"
  /\ signal' = Displacement(verts, startPos, pos)
  /\ \E r \in {collapse_short_edges(CurrentMesh, 0)} : SetMesh(r.mesh)
  /\ runLog' = Append(runLog, <<iter, "collapse">>)
  /\ pc' = "run_split"
  /\ NoLocals
  /\ startPos' = <<>>
  /\ UNCHANGED <<mcsVars, runState, iter, runFailed, caller, uiVars,
                 restVars, ops>>

RunSplit ==
  /\ pc = "run_split"
  /\ \E r \in {iteratively_split_triangles(CurrentMesh, 0)} : SetMesh(r.mesh)
  /\ runLog' = Append(runLog, <<iter, "split">>)
  /\ pc' = "run_detect"
  /\ UNCHANGED <<mcsVars, runState, iter, signal, runFailed, caller, cgVars,
                 uiVars, restVars, ops>>

RunDetect ==
  /\ pc = "run_detect"
  /\ \E r \in {detect_degeneracies(verts, faces, pos, fixed, fixedPoints)} :
       fixed' = r.fixed /\ fixedPoints' = r.fixedPoints
  /\ runLog' = Append(runLog, <<iter, "detect">>)
  /\ pc' = "run_check"
  /\ UNCHANGED <<verts, faces, pos, vid, eid, nextHandle, mcs, omega_L,
                 omega_H, edge_weight, runState, iter, signal, runFailed,
                 caller, cgVars, uiVars, restVars, ops>>

\* next iteration while the signal is above the tolerance and the maximum
\* iteration count is not reached
RunIterate ==
  /\ pc = "run_check"
  /\ ~(signal < Tolerance \/ iter >= MaxIter)
  /\ iter' = iter + 1
  /\ runLog' = Append(runLog, <<iter + 1, "contract">>)
  /\ UNCHANGED <<meshVars, mcsVars, runState, signal, runFailed, uiVars,
                 restVars, ops>>
  /\ EnterContractGeometry("contract")

RunConverged ==
  /\ pc = "run_check"
  /\ (signal < Tolerance \/ iter >= MaxIter)
  /\ runState' = "Converged"
  /\ pc' = "idle"
  /\ caller' = "none"
  /\ ShowFixedPoints(fixedPoints)
  /\ notified' = selected
  /\ UNCHANGED <<meshVars, mcsVars, iter, runLog, signal, runFailed, cgVars,
                 uiVars, ops, sceneVars, lastOp, num_collapses, psVars>>

Next ==
  \/ on_actionContract
  \/ CgComputeEdgeWeight
  \/ CgAssembleLHS
  \/ CgAssembleRHS
  \/ CgPreFactor
  \/ CgSolveX
  \/ CgSolveY
  \/ CgSolveZ
  \/ CgCopyToMesh
  \/ ContractReturn
  \/ on_actionCollapse
  \/ on_actionSplit
  \/ on_actionDegeneracy
  \/ on_actionRun
  \/ RunCollapse
  \/ RunSplit
  \/ RunDetect
  \/ RunIterate
  \/ RunConverged
  \/ EditUi

Spec == Init /\ [][Next]_vars

TypeOK ==
  /\ verts \subseteq Handles
  /\ pc \in {"idle", "cg_weight", "cg_lhs", "cg_rhs", "cg_factor",
             "cg_solveX", "cg_solveY", "cg_solveZ", "cg_copy", "cg_done",
             "run_split", "run_detect", "run_check"}
  /\ runState \in {"None", "Running", "Converged"}

\* ------------------------------------------------------------ Point_set_3
\* std::size_t arithmetic wraps; an iterator difference is a std::ptrdiff_t
SizeMod == 2 ^ SizeBits
SizeT(x) == x % SizeMod
PtrDiff(x) == IF x >= SizeMod \div 2 THEN x - SizeMod ELSE x
\* a vector cannot grow beyond max_size(): resize() throws std::length_error
max_size == SizeMod \div 2 - 1

\* the points handed to push_back; the values of a slot made by add_item()
PointValues == {1, 2}
DefaultPoint == 0
DefaultIndex == 0
\* what a read outside the index array may return
GarbageIndex == {0, SizeMod - 1}

pluginVars == <<meshVars, mcsVars, runVars, pc, caller, cgVars, uiVars, ops,
                sceneVars, lastOp, notified, num_collapses, fpVars>>

\* m_base: the property container, here its two arrays "index" and "point"
Base(idx, pts) == [idx |-> idx, pts |-> pts]
m_base == Base(m_indices, m_points)
BaseSize(B) == VLen(B.idx)

\* m_base.swap(i, j): swaps the items i and j of every property array
BaseSwap(B, i, j) ==
  LET sw(f) == [k \in DOMAIN f |->
                  IF k = i THEN f[j] ELSE IF k = j THEN f[i] ELSE f[k]]
  IN Base(sw(B.idx), sw(B.pts))

\* m_base.resize(n): every array is cut or filled with its default value
BaseResize(B, n) ==
  Base([k \in 0..(n - 1) |-> IF k \in DOMAIN B.idx THEN B.idx[k] ELSE DefaultIndex],
       [k \in 0..(n - 1) |-> IF k \in DOMAIN B.pts THEN B.pts[k] ELSE DefaultPoint])

\* size(): m_base.size() - m_nb_removed
SizeOf(B, r) == SizeT(BaseSize(B) - r)
size == SizeOf(m_base, m_nb_removed)
removed_size == m_nb_removed
\* removed_begin() as a position in the index array: m_indices.end() - m_nb_removed
removed_begin == BaseSize(m_base) - PtrDiff(m_nb_removed)

\* quick_sort_partition(begin, end, p), the loop over i with the running j
RECURSIVE PartitionLoop(_, _, _, _)
PartitionLoop(B, i, j, end) ==
  IF i >= end THEN [base |-> B, j |-> j]
  ELSE IF B.idx[i] <= B.idx[end]
  THEN CHOOSE r \in {PartitionLoop(b, i + 1, j + 1, end) :
                       b \in {BaseSwap(B, i, j)}} : TRUE
  ELSE PartitionLoop(B, i + 1, j, end)

quick_sort_partition(B, begin, end, p) ==
  CHOOSE x \in {[base |-> BaseSwap(r.base, end, r.j), j |-> r.j] :
                  r \in {PartitionLoop(b, begin, begin, end) :
                           b \in {BaseSwap(B, p, end)}}} : TRUE

\* quick_sort_on_indices(): todo is the stack (top at the end); the pivot is
\* first + rand() % (second - first); the result is the set of the orders
\* the pivots can produce
RECURSIVE quick_sort_on_indices(_, _)
quick_sort_on_indices(B, todo) ==
  IF todo = <<>> THEN {B}
  ELSE LET current == todo[Len(todo)]
           rest == SubSeq(todo, 1, Len(todo) - 1)
       IN IF current[1] < current[2]
          THEN UNION {UNION {quick_sort_on_indices(r.base, t) :
                               t \in {rest \o <<<<current[1], r.j - 1>>,
                                                <<r.j + 1, current[2]>>>>}} :
                        r \in {quick_sort_partition(B, current[1], current[2], q) :
                                 q \in current[1]..(current[2] - 1)}}
          ELSE UNION {quick_sort_on_indices(B, t) : t \in {rest}}

\* collect_garbage(), lines 227-233: indices[m_indices[i]] = i on a vector
\* of m_base.size() zeros, then m_indices[i] = indices[i]; a write outside
\* the vector does not land in it
IndicesInRange(B) == \A i \in DOMAIN B.idx : B.idx[i] < BaseSize(B)
InverseIndices(B) ==
  [B EXCEPT !.idx =
     [k \in DOMAIN B.idx |->
        LET ws == {i \in DOMAIN B.idx : B.idx[i] = k}
        IN IF ws = {} THEN 0 ELSE CHOOSE i \in ws : \A l \in ws : l <= i]]

\* a call that read or wrote outside an array has undefined behaviour: the
\* program is killed or goes on with what landed inside the arrays
AfterAccess(oob) == psState' \in (IF oob THEN {"ok", "ub"} ELSE {"ok"})

PsCall(name, arg) ==
  /\ psState = "ok"
  /\ psOps < MaxPsOps
  /\ psOps' = psOps + 1
  /\ psOp' = name
  /\ psArg' = arg
  /\ UNCHANGED pluginVars

\* lines 186-191
push_back(p) ==
  /\ PsCall("push_back", p)
  /\ BaseSize(m_base) < MaxItems
  /\ \E B \in {BaseResize(m_base, BaseSize(m_base) + 1)} :
       \E q \in {SizeT(SizeOf(B, m_nb_removed) - 1)} :
         /\ m_indices' = IF q \in DOMAIN B.idx THEN [B.idx EXCEPT ![q] = q]
                         ELSE B.idx
         /\ m_points' = IF q \in DOMAIN B.pts THEN [B.pts EXCEPT ![q] = p]
                        ELSE B.pts
         /\ AfterAccess(q \notin DOMAIN B.idx)
  /\ UNCHANGED m_nb_removed

\* lines 276-281: it is the position of the iterator in the index array
remove(it) ==
  /\ PsCall("remove", it)
  /\ \E t \in {removed_begin - 1} :
       IF t \in DOMAIN m_indices
       THEN /\ m_indices' = BaseSwap(m_base, it, t).idx
            /\ AfterAccess(FALSE)
       ELSE /\ \E g \in GarbageIndex : m_indices' = [m_indices EXCEPT ![it] = g]
            /\ AfterAccess(TRUE)
  /\ m_nb_removed' = SizeT(m_nb_removed - 1)
  /\ UNCHANGED m_points

\* lines 271-274
remove_from(it) ==
  /\ PsCall("remove_from", it)
  /\ m_nb_removed' = SizeT(BaseSize(m_base) - it)
  /\ psState' = "ok"
  /\ UNCHANGED <<m_indices, m_points>>

\* lines 206-215
resize(s) ==
  /\ PsCall("resize", s)
  /\ \E B \in {BaseResize(m_base, s)} :
       /\ m_indices' = B.idx
       /\ m_points' = B.pts
       /\ m_nb_removed' =
            IF s > SizeOf(B, m_nb_removed) THEN SizeT(m_nb_removed + s)
            ELSE IF SizeT(BaseSize(B) - s) > m_nb_removed THEN 0
            ELSE SizeT(m_nb_removed - s)
  /\ psState' = "ok"

\* lines 224-249
collect_garbage ==
  /\ PsCall("collect_garbage", 0)
  /\ \E B \in quick_sort_on_indices(InverseIndices(m_base),
                                    <<<<0, BaseSize(m_base) - 1>>>>) :
       IF SizeOf(B, m_nb_removed) > max_size
       THEN /\ m_indices' = B.idx
            /\ m_points' = B.pts
            /\ psState' = "throw"
            /\ UNCHANGED m_nb_removed
       ELSE /\ \E R \in {BaseResize(B, SizeOf(B, m_nb_removed))} :
                 m_indices' = R.idx /\ m_points' = R.pts
            /\ m_nb_removed' = 0
            /\ AfterAccess(~IndicesInRange(m_base))

\* lines 251-257
clear ==
  /\ PsCall("clear", 0)
  /\ m_indices' = Vec(0, 0)
  /\ m_points' = Vec(0, 0)
  /\ m_nb_removed' = 0
  /\ psState' = "ok"

NextPS ==
  \/ \E p \in PointValues : push_back(p)
  \/ \E it \in DOMAIN m_indices : remove(it)
  \/ \E it \in 0..BaseSize(m_base) : remove_from(it)
  \/ \E s \in 0..MaxItems : resize(s)
  \/ collect_garbage
  \/ clear

SpecPS == Init /\ [][NextPS]_vars

\* the calls that neither resize() nor clear() the set
NextPSIndex ==
  \/ \E p \in PointValues : push_back(p)
  \/ \E it \in DOMAIN m_indices : remove(it)
  \/ \E it \in 0..BaseSize(m_base) : remove_from(it)
  \/ collect_garbage

SpecPSIndex == Init /\ [][NextPSIndex]_vars

\* ---------------------------------------------------------- properties
IsPrefix(s, t) == Len(s) <= Len(t) /\ \A k \in 1..Len(s) : s[k] = t[k]
Done(ev) == \E k \in 1..Len(events) : events[k] = ev
CgPcs == <<"cg_weight", "cg_lhs", "cg_rhs", "cg_factor", "cg_solveX",
           "cg_solveY", "cg_solveZ", "cg_copy", "cg_done">>
SolvePcs == {"cg_factor", "cg_solveX", "cg_solveY", "cg_solveZ", "cg_copy"}
InCall == \E k \in 1..Len(CgPcs) : pc = CgPcs[k]
NVer == num_vertices(verts)

\* C1: in every call of contract_geometry(), the weight assemble_LHS reads
\* for an edge is the weight computed from the geometry at the start of that
\* call, and the weight array holds exactly one entry per edge.
C1_FreshWeights ==
  Done("lhs") =>
    /\ Len(edge_weight) = num_edges(faces)
    /\ \A k \in 1..Len(EdgeList(faces)) :
         wread[k] = weight_calculator(EdgeList(faces)[k], faces, startPos)

\* C2: with n the number of vertices at assembly time, A is 2n x n, every
\* right-hand side has length 2n, every solution vector has length n, and
\* every index written by assemble_LHS and assemble_RHS is inside them.
C2_Dimensions ==
  Done("rhs") =>
    /\ A.rows = 2 * NVer /\ A.cols = NVer
    /\ VLen(Bx) = 2 * NVer /\ VLen(By) = 2 * NVer /\ VLen(Bz) = 2 * NVer
    /\ VLen(X) = NVer /\ VLen(Y) = NVer /\ VLen(Z) = NVer
    /\ \A w \in lhsIdx : w[1] \in 0..(2 * NVer - 1) /\ w[2] \in 0..(NVer - 1)
    /\ \A i \in rhsIdx : i \in 0..(2 * NVer - 1)

\* C3: after assemble_LHS, for every vertex with id i, A(i,i) is the
\* negative sum of the weights of its incident edges, A(i,j) is the weight
\* times omega_L for every neighbour j, A(n+i,i) is omega_H and every other
\* entry of rows i and n+i is zero.  The weight of an edge is wij, twice the
\* value the weight calculator gives for the geometry of this step.
EdgeWij(e) == 2 * weight_calculator(e, faces, startPos)
C3_LaplacianRows ==
  Done("lhs") =>
    \A v \in verts :
      LET i == vid[v]
          es == InEdges(v, faces)
      IN /\ i \in 0..(NVer - 1)
         /\ \A k \in 1..Len(es) : vid[es[k][1]] \in 0..(NVer - 1)
         /\ A.coef[i][i] = SumSeq([k \in 1..Len(es) |-> -EdgeWij(es[k])])
         /\ \A k \in 1..Len(es) :
              A.coef[i][vid[es[k][1]]] = EdgeWij(es[k]) * omega_L
         /\ A.coef[NVer + i][i] = omega_H
         /\ \A c \in 0..(NVer - 1) :
              /\ (c # i /\ \A k \in 1..Len(es) : vid[es[k][1]] # c)
                   => A.coef[i][c] = 0
              /\ c # i => A.coef[NVer + i][c] = 0

\* C4: after assemble_RHS, entries [0,n) of Bx, By, Bz are zero and, for
\* every vertex with id i, entry n+i holds the vertex's coordinate from
\* before this step's solve, times omega_H.
C4_RightHandSide ==
  Done("rhs") =>
    /\ \A i \in 0..(NVer - 1) :
         /\ i \in DOMAIN Bx
         /\ Bx[i] = 0 /\ By[i] = 0 /\ Bz[i] = 0
    /\ \A v \in verts :
         /\ NVer + vid[v] \in DOMAIN Bx
         /\ Bx[NVer + vid[v]] = startPos[v][1] * omega_H
         /\ By[NVer + vid[v]] = startPos[v][2] * omega_H
         /\ Bz[NVer + vid[v]] = startPos[v][3] * omega_H

\* C5: at the start of every contraction step the vertex ids are a
\* permutation of [0,n) and the edge ids a permutation of [0,m).
C5_DenseIds ==
  pc = "cg_weight" =>
    /\ {vid[v] : v \in verts} = 0..(NVer - 1)
    /\ {eid[e] : e \in Edges(faces)} = 0..(num_edges(faces) - 1)

\* C6: when the factorization reports failure, contract_geometry() signals
\* the error instead of returning, and leaves every position unchanged.
C6_NoWriteAfterFailedFactor ==
  (InCall /\ ~factorOk) => (pc # "cg_done" /\ pos = startPos)

\* C7: within one contract_geometry() call: weights, left-hand side,
\* right-hand sides, one factorization, the solves for x, y, z on the matrix
\* that was factored, and only then the copy of the positions to the mesh.
C7_StepOrder ==
  /\ [](/\ IsPrefix(events, CanonicalEvents)
        /\ (InCall => pc = CgPcs[Len(events) + 1])
        /\ ((InCall /\ ~Done("copy")) => pos = startPos))
  /\ [][(pc \in SolvePcs) => (A' = A)]_vars

C7_Witness ==
  /\ pc = "cg_done"
  /\ events = CanonicalEvents
  /\ pos # startPos
  /\ X # Y

\* C8: after a successful contract_geometry() every vertex with id i sits
\* at (X[i], Y[i], Z[i]) and the vertex set is the one the call started
\* with.
C8_WriteBack ==
  (pc = "cg_done" /\ factorOk) =>
    /\ DOMAIN startPos = verts
    /\ \A v \in verts :
         /\ vid[v] \in DOMAIN X
         /\ pos[v] = <<X[vid[v]], Y[vid[v]], Z[vid[v]]>>

\* C9: every iteration of the driver runs contraction, collapse, split,
\* detection in this order, each once, and the next iteration starts only
\* after the detection of the previous one.
C9_PhaseOrder ==
  /\ IsPrefix(runLog, CanonicalLog(MaxIter))
  /\ (pc = "run_check" => Len(runLog) = 4 * iter)
  /\ (pc = "cg_weight" /\ caller = "contract" => Len(runLog) = 4 * iter - 3)

C9_Witness ==
  /\ runState = "Converged"
  /\ iter = MaxIter
  /\ runLog = CanonicalLog(MaxIter)

\* C10: a run ends Converged when the signal is below the tolerance or the
\* iteration limit is reached, and ends Failed exactly when a contraction
\* step met a failed factorization (the NumericalError of 4.3).
C10_FailedWhenSolverFails ==
  (pc = "idle" /\ runState # "None") =>
    /\ runState # "Running"
    /\ (runState = "Converged" => ~runFailed)
    /\ (runState = "Converged" => (signal < Tolerance \/ iter >= MaxIter))

AfterDetect ==
  \/ pc = "idle" /\ lastOp = "on_actionDegeneracy" /\ mcs
  \/ pc = "run_check"

IncidentFaces(e, F) == {f \in F : {e[1], e[2]} \subseteq f}
ShortEdges == {e \in Edges(faces) : IsShortEdge(e, pos)}

\* C13: collapse_short_edges() skips every edge whose collapse would create
\* a non-manifold edge: every edge of the closed mesh has exactly two
\* incident faces, before and after the call, and the count the call returns
\* is the number of edges it collapsed (one vertex disappears per collapse).
C13_ManifoldCollapse ==
  /\ [](\A e \in Edges(faces) : Cardinality(IncidentFaces(e, faces)) = 2)
  /\ [][(lastOp' = "on_actionCollapse" /\ ops' = ops + 1)
          => Cardinality(verts) - Cardinality(verts') = num_collapses']_vars

\* the Collapse button collapsed an edge and left short edges that cannot be
\* collapsed
C13_Witness ==
  /\ pc = "idle"
  /\ lastOp = "on_actionCollapse"
  /\ num_collapses > 0
  /\ ShortEdges # {}
  /\ \A e \in ShortEdges : ~IsManifoldCollapse(e[1], e[2], verts, faces)

\* C14: every contraction step started by on_actionContract or on_actionRun
\* runs with the omega_L and omega_H the spin boxes hold when the driver is
\* called: the driver holds these values during the whole call, the matrix
\* is the one assemble_LHS builds from them and the right-hand sides are the
\* ones assemble_RHS builds from them.
C14_UiParametersUsed ==
  /\ InCall => (omega_L = uiOmegaL /\ omega_H = uiOmegaH)
  /\ pc = "cg_rhs" =>
       \E g \in Garbage \cup {0} :
         A = assemble_LHS(NewMatrix(NVer * 2, NVer), verts, faces, vid, eid,
                          edge_weight, uiOmegaL, uiOmegaH, g)
  /\ pc = "cg_factor" =>
       /\ Bx = assemble_RHS(Vec(NVer * 2, 0), verts, vid, pos, 1, uiOmegaH)
       /\ By = assemble_RHS(Vec(NVer * 2, 0), verts, vid, pos, 2, uiOmegaH)
       /\ Bz = assemble_RHS(Vec(NVer * 2, 0), verts, vid, pos, 3, uiOmegaH)

\* a driver that has already made a contraction step (its weight vector is
\* longer than one step makes it) was handed edited values by the setters
\* and has assembled the matrix with them
C14_Witness ==
  /\ pc = "cg_rhs"
  /\ lastOp = "on_actionContract"
  /\ ops = 2
  /\ Len(edge_weight) > num_edges(faces)
  /\ uiOmegaL = 2 /\ uiOmegaH = 2
  /\ \A i \in 0..(NVer - 1) : A.coef[NVer + i][i] = 2

\* C15: at most one driver is alive, a driver never changes its mesh, and
\* while a contraction started by on_actionContract or on_actionRun runs, the
\* driver's mesh is the selected one: a driver on another mesh is deleted and
\* a fresh one is created on the selected mesh first.
C15_OneDriverOnSelected ==
  /\ [](/\ nDrivers <= 1
        /\ (mcs <=> nDrivers = 1)
        /\ (pc # "idle" => (mcs /\ polyhedron = selected)))
  /\ [][(mcs /\ polyhedron' # polyhedron)
          => /\ lastOp' \in {"on_actionContract", "on_actionRun"}
             /\ ops' = ops + 1
             /\ nDrivers' = 1
             /\ edge_weight' = <<>> /\ fixedPoints' = <<>>
             /\ vid' = CtorVid(verts') /\ eid' = CtorEid(faces')]_vars

\* a contraction runs on item 2 with a driver created for it, after a driver
\* had been created on item 1 (whose vertices it numbered)
C15_Witness ==
  /\ pc = "cg_done"
  /\ polyhedron = 2 /\ selected = 2
  /\ nDrivers = 1
  /\ \A v \in stash[1].verts : stash[1].vid[v] # NoId

\* C20: on_actionCollapse, on_actionSplit and on_actionDegeneracy change no
\* polyhedron but the one of the item selected when the slot runs (the item
\* passed to itemChanged), and change nothing when there is no driver.
C20_OnlySelectedMeshChanges ==
  [][(lastOp' \in {"on_actionCollapse", "on_actionSplit", "on_actionDegeneracy"}
      /\ ops' = ops + 1)
     => /\ \A i \in Items : i # selected' => SceneMesh(i)' = SceneMesh(i)
        /\ \A i \in Items : (i = selected' /\ SceneMesh(i)' # SceneMesh(i))
                              => notified' = i
        /\ ~mcs => /\ \A i \in Items : SceneMesh(i)' = SceneMesh(i)
                   /\ fixedPoints' = fixedPoints
                   /\ notified' = 0]_vars

\* ------------------------------------------- properties of Point_set_3
IsPermutation(idx) == {idx[k] : k \in DOMAIN idx} = DOMAIN idx
\* operator[](i): m_points[m_indices[i]]
Readable(i) == i \in DOMAIN m_indices /\ m_indices[i] \in DOMAIN m_points
PointAt(i) == m_points[m_indices[i]]
\* the items (values of the index array) before end() and from removed_begin()
LiveItems == {m_indices[k] : k \in {l \in DOMAIN m_indices : l < size}}
RemovedItems == {m_indices[k] : k \in {l \in DOMAIN m_indices : l >= removed_begin}}
PsStep(name) == psOp' = name /\ psOps' = psOps + 1

\* C16: collect_garbage() on a point set whose index array is a permutation:
\* afterwards removed_size() is 0, size() is what it was, and operator[]
\* gives at every i < size() the point it gave before the call.
C16_CollectGarbage ==
  [][(PsStep("collect_garbage") /\ IsPermutation(m_indices))
     => /\ removed_size' = 0
        /\ size' = size
        /\ \A i \in 0..(size - 1) :
             /\ Readable(i)
             /\ Readable(i)'
             /\ PointAt(i)' = PointAt(i)]_vars

\* C17: the removed count never exceeds the number of stored items:
\* size() + removed_size() is the size of the container.
C17_RemovedWithinStored ==
  /\ removed_size <= BaseSize(m_base)
  /\ size + removed_size = BaseSize(m_base)

\* C18: remove(it) on a live element: size() is one less, removed_size() is
\* one more, the element is in the removed range and the other live
\* elements are the same set as before.
C18_RemoveMovesOne ==
  [][(PsStep("remove") /\ psArg' < size)
     => /\ size' = size - 1
        /\ removed_size' = removed_size + 1
        /\ m_indices[psArg'] \in RemovedItems'
        /\ LiveItems' = LiveItems \ {m_indices[psArg']}]_vars

\* C19: after push_back, remove, remove_from and collect_garbage the index
\* array is a permutation of [0, m_base.size()), and after push_back(p) the
\* point p is read at size() - 1.
C19_IndexPermutation ==
  /\ IsPermutation(m_indices)
  /\ (psOp = "push_back" /\ psState = "ok")
       => (Readable(size - 1) /\ PointAt(size - 1) = psArg)

\* --------------------------------------- the fixed-points item of the scene
\* a step in which the plugin reads get_fixed_points(): on_actionDegeneracy
\* with a driver, or the end of on_actionRun
FixedPointsShown ==
  \/ ops' # ops /\ lastOp' = "on_actionDegeneracy" /\ mcs
  \/ pc = "run_check" /\ pc' = "idle"

====
